---- MODULE Spec2Model ----
(***************************************************************************)
(* Model of the C foreign-function boundary of the blind threshold BLS     *)
(* signature library (crates/threshold-bls-ffi/src/ffi.rs).                *)
(*                                                                         *)
(* The entry points of ffi.rs are modelled one by one (null checks, early  *)
(* returns, output writes, boxed handles).  The scheme they call into      *)
(* (threshold_bls::sig, threshold_bls::poly, the bincode codec and the     *)
(* ChaCha generator) lives outside ffi.rs; it is modelled from the         *)
(* specification over a small prime field: a group element is written as   *)
(* its group tag together with its discrete logarithm, so that the pairing *)
(* equation e(sig, g2) = e(H(m), pk) becomes an equation between products  *)
(* of exponents.                                                           *)
(***************************************************************************)
EXTENDS Integers, Sequences, FiniteSets, TLC

(***************************************************************************)
(* Bounds of the model.                                                    *)
(***************************************************************************)
MaxN == 3        \* largest number of shares handed to threshold_keygen
MaxT == 3        \* largest threshold handed to threshold_keygen / combine
MaxSigs == 3     \* most partial signatures the pipeline collects
MaxAggSigs == 2  \* most partial signatures collected when probing combine
MaxCut == 1      \* most bytes dropped from the end of the concatenation
MaxSeedLen == 33 \* longest seed buffer the caller passes
MaxMixSigs == 3  \* most partial signatures collected when mixing good and bad ones

(***************************************************************************)
(* History of the process: the first successful constructor call (blind,   *)
(* keygen or threshold_keygen) with its inputs and what it produced.       *)
(***************************************************************************)
VARIABLE first_made

(***************************************************************************)
(* Program constants.                                                      *)
(***************************************************************************)
SEED_LEN == 32   \* from_slice: let mut array = [0; 32]

\* Fixed encoding widths (crate constants declared outside ffi.rs); the
\* model keeps them fixed-width and distinct but short.
FieldOrder == 11        \* order of the scalar field / of the groups
PRIVKEY_LEN == 2
PUBKEY_LEN == 4
SIGNATURE_LEN == 3
INDEX_LEN == 1          \* size_of::<Index>() in the partial-signature slot
PARTIAL_SIG_LENGTH == INDEX_LEN + SIGNATURE_LEN

(***************************************************************************)
(* Scalar field arithmetic.                                                *)
(***************************************************************************)
Scalars == 0..(FieldOrder - 1)
FAdd(a, b) == (a + b) % FieldOrder
FSub(a, b) == (a + FieldOrder - b) % FieldOrder
FMul(a, b) == (a * b) % FieldOrder
\* Scalar::inverse: None for zero
HasInverse(a) == a % FieldOrder # 0
FInv(a) == CHOOSE x \in 1..(FieldOrder - 1) : FMul(a % FieldOrder, x) = 1

(***************************************************************************)
(* Group elements: [grp, e] stands for e * generator of grp.               *)
(***************************************************************************)
G1(e) == [grp |-> "G1", e |-> e % FieldOrder]
G2(e) == [grp |-> "G2", e |-> e % FieldOrder]
\* point.mul(scalar)
PMul(p, s) == [grp |-> p.grp, e |-> FMul(p.e, s)]
PAdd(p, r) == [grp |-> p.grp, e |-> FAdd(p.e, r.e)]

RECURSIVE SumTo(_, _)
\* sum of f[1] .. f[k]
SumTo(f, k) == IF k = 0 THEN 0 ELSE f[k] + SumTo(f, k - 1)

\* hash-to-curve on G1: never the identity
HashToG1(msg) ==
    G1((SumTo([i \in 1..Len(msg) |-> (i + 1) * msg[i]], Len(msg)) % (FieldOrder - 1)) + 1)

(***************************************************************************)
(* Fixed-width codec (bincode of scalars and compressed points).           *)
(***************************************************************************)
RECURSIVE Pow256(_)
Pow256(k) == IF k = 0 THEN 1 ELSE 256 * Pow256(k - 1)

\* little-endian, exactly w bytes
EncodeLE(v, w) == [i \in 1..w |-> (v \div Pow256(i - 1)) % 256]
DecodeLE(bytes) ==
    SumTo([i \in 1..Len(bytes) |-> bytes[i] * Pow256(i - 1)], Len(bytes))

Ok(v) == [ok |-> TRUE, v |-> v]
Err == [ok |-> FALSE, v |-> <<>>]

RECURSIVE LessLE(_, _, _)
\* a < b as little-endian numbers of k bytes, compared from the top byte
LessLE(a, b, k) ==
    IF k = 0 THEN FALSE
    ELSE IF a[k] # b[k] THEN a[k] < b[k]
    ELSE LessLE(a, b, k - 1)

\* A decode succeeds on exactly w bytes holding a canonical value, one
\* below the field order.
DecodeCanonical(bytes, w) ==
    IF Len(bytes) = w /\ LessLE(bytes, EncodeLE(FieldOrder, w), w)
    THEN Ok(DecodeLE(bytes)) ELSE Err

SerScalar(s) == EncodeLE(s, PRIVKEY_LEN)
DeScalar(bytes) == DecodeCanonical(bytes, PRIVKEY_LEN)
SerG2(p) == EncodeLE(p.e, PUBKEY_LEN)
DeG2(bytes) ==
    LET d == DecodeCanonical(bytes, PUBKEY_LEN)
    IN IF d.ok THEN Ok(G2(d.v)) ELSE Err
SerG1(p) == EncodeLE(p.e, SIGNATURE_LEN)
DeG1(bytes) ==
    LET d == DecodeCanonical(bytes, SIGNATURE_LEN)
    IN IF d.ok THEN Ok(G1(d.v)) ELSE Err

(***************************************************************************)
(* Deterministic randomness: ChaChaRng seeded with the first SEED_LEN      *)
(* bytes of the caller's seed.  The generator is a value [key, mix]; the   *)
(* k-th scalar drawn from it is a fixed function of that value.            *)
(***************************************************************************)
\* a bounds check that asks for one byte more than it copies
from_slice_panics_off_by_one(bytes) == Len(bytes) <= SEED_LEN

\* a conversion that keeps every byte of the buffer
from_slice_whole(bytes) == bytes

\* from_slice: &bytes[..32], copied; panics when fewer bytes are supplied
from_slice_panics(bytes) == Len(bytes) < SEED_LEN
from_slice(bytes) == SubSeq(bytes, 1, SEED_LEN)

\* ChaChaRng::from_seed
ChaChaFromSeed(seed) ==
    [key |-> seed,
     mix |-> SumTo([i \in 1..Len(seed) |-> i * seed[i]], Len(seed))]

\* a generator that lives across calls: every constructor call so far has
\* advanced it
get_rng_persisting(digest) ==
    LET rng == ChaChaFromSeed(from_slice(digest))
        drawn == Cardinality({op \in DOMAIN first_made : first_made[op].made})
    IN [rng EXCEPT !.mix = @ + drawn]

\* get_rng: a fresh generator, built from the first 32 bytes of the digest
get_rng(digest) == ChaChaFromSeed(from_slice(digest))

\* the k-th scalar picked from the stream (k = 0, 1, ...); a uniform draw
\* from the field is nonzero but for a negligible probability
RandScalar(rng, k) == ((rng.mix * (k + 1) + k * k) % (FieldOrder - 1)) + 1

(***************************************************************************)
(* threshold_bls::poly                                                     *)
(***************************************************************************)
\* Poly::new_from(degree, rng): degree + 1 random coefficients
PolyNewFrom(degree, rng) == [k \in 1..(degree + 1) |-> RandScalar(rng, k - 1)]

RECURSIVE Horner(_, _, _)
\* value of coefficients c[k..] at x, in the scalar field
Horner(c, k, x) ==
    IF k > Len(c) THEN 0 ELSE FAdd(c[k], FMul(x, Horner(c, k + 1, x)))

\* the evaluation point of index i: never 0, which would reveal the secret
EvalPoint(i) == (i + 1) % FieldOrder

\* Poly<PrivateKey>::eval(i)
PolyEval(c, i) == [index |-> i, value |-> Horner(c, 1, EvalPoint(i))]

\* Poly<PrivateKey>::commit: coefficientwise g2^c
PolyCommit(c) == [k \in 1..Len(c) |-> G2(c[k])]

\* Poly<PublicKey>::eval(i): the same evaluation in the exponent
PolyEvalPublic(pc, i) ==
    [index |-> i,
     value |-> G2(Horner([k \in 1..Len(pc) |-> pc[k].e], 1, EvalPoint(i)))]

\* Poly<PublicKey>::public_key: the constant term
PolyPublicKey(pc) == pc[1]

RECURSIVE InsertByIndex(_, _)
\* stable insertion of evaluation e into the index-sorted sequence s
InsertByIndex(s, e) ==
    IF s = <<>> THEN <<e>>
    ELSE IF Head(s).index <= e.index THEN <<Head(s)>> \o InsertByIndex(Tail(s), e)
    ELSE <<e>> \o s

RECURSIVE SortByIndex(_)
SortByIndex(s) ==
    IF s = <<>> THEN <<>>
    ELSE InsertByIndex(SortByIndex(SubSeq(s, 1, Len(s) - 1)), s[Len(s)])

\* the evaluations kept for recovery: the first t by index, one per index
\* (a later one with the same index replaces the earlier)
ShareMap(t, evals) ==
    LET first == SubSeq(SortByIndex(evals), 1, t)
        keep == {k \in 1..Len(first) :
                    \A m \in (k + 1)..Len(first) : first[m].index # first[k].index}
    IN {first[k] : k \in keep}

RECURSIVE LagrangeCoeff(_, _)
\* product over the other points xm of xm / (xm - xj)
LagrangeCoeff(xj, others) ==
    IF others = {} THEN 1
    ELSE LET xm == CHOOSE x \in others : TRUE
         IN FMul(FMul(xm, FInv(FSub(xm, xj))), LagrangeCoeff(xj, others \ {xm}))

RECURSIVE LagrangeAtZero(_, _)
LagrangeAtZero(todo, all) ==
    IF todo = {} THEN 0
    ELSE LET p == CHOOSE q \in todo : TRUE
             xs == {EvalPoint(q.index) : q \in all}
         IN FAdd(FMul(p.value.e, LagrangeCoeff(EvalPoint(p.index), xs \ {EvalPoint(p.index)})),
                 LagrangeAtZero(todo \ {p}, all))

\* Poly::recover(t, shares) over G1 values: fails on fewer than t shares
PolyRecover(t, evals) ==
    IF Len(evals) < t THEN Err
    ELSE LET m == ShareMap(t, evals) IN Ok(G1(LagrangeAtZero(m, m)))

(***************************************************************************)
(* threshold_bls::sig -- the scheme SigScheme the entry points call.       *)
(* Every operation works on byte encodings and returns Ok(bytes) or Err.   *)
(***************************************************************************)
\* Scheme::keypair(rng)
SchemeKeypair(rng) ==
    LET private == RandScalar(rng, 0)
    IN [private |-> private, public |-> G2(private)]

\* SignatureScheme::sign(private, msg)
SchemeSign(private, msg) == Ok(SerG1(PMul(HashToG1(msg), private)))

\* the pairing equation e(sig, g2) = e(point, public)
PairingCheck(sig, point, public) == sig.e = FMul(point.e, public.e)

\* SignatureScheme::verify(public, msg, sig)
SchemeVerify(public, msg, sig) ==
    LET s == DeG1(sig)
    IN s.ok /\ PairingCheck(s.v, HashToG1(msg), public)

\* BlindScheme::blind_msg(msg, rng) -> (Token, blinded message)
SchemeBlindMsg(msg, rng) ==
    LET r == RandScalar(rng, 0)
    IN [token |-> r, blinded |-> SerG1(PMul(HashToG1(msg), r))]

\* BlindScheme::unblind_sig(token, blinded signature)
SchemeUnblindSig(token, sig) ==
    LET s == DeG1(sig)
    IN IF s.ok /\ HasInverse(token) THEN Ok(SerG1(PMul(s.v, FInv(token)))) ELSE Err

\* BlindScheme::blind_sign(private, blinded message)
SchemeBlindSign(private, blinded_msg) ==
    LET m == DeG1(blinded_msg)
    IN IF m.ok THEN Ok(SerG1(PMul(m.v, private))) ELSE Err

\* the fixed-width slot of a partial signature: share index, then signature
SerPartial(index, sig) == EncodeLE(index, INDEX_LEN) \o sig
DePartial(partial) ==
    IF Len(partial) # PARTIAL_SIG_LENGTH THEN Err
    ELSE LET s == DeG1(SubSeq(partial, INDEX_LEN + 1, PARTIAL_SIG_LENGTH))
         IN IF s.ok
            THEN Ok([index |-> DecodeLE(SubSeq(partial, 1, INDEX_LEN)), value |-> s.v])
            ELSE Err

\* ThresholdScheme::partial_sign(share, msg)
SchemePartialSign(share, msg) ==
    LET s == SchemeSign(share.private, msg)
    IN IF s.ok THEN Ok(SerPartial(share.index, s.v)) ELSE Err

\* BlindThresholdScheme::sign_blind_partial(share, blinded message)
SchemeSignBlindPartial(share, blinded_msg) ==
    LET s == SchemeBlindSign(share.private, blinded_msg)
    IN IF s.ok THEN Ok(SerPartial(share.index, s.v)) ELSE Err

\* ThresholdScheme::partial_verify(public polynomial, msg, partial)
SchemePartialVerify(polynomial, msg, partial) ==
    LET p == DePartial(partial)
    IN p.ok /\ PairingCheck(p.v.value, HashToG1(msg),
                            PolyEvalPublic(polynomial, p.v.index).value)

\* BlindThresholdScheme::verify_blind_partial(public polynomial, blinded msg, partial)
SchemeVerifyBlindPartial(polynomial, blinded_msg, partial) ==
    LET p == DePartial(partial)
        m == DeG1(blinded_msg)
    IN p.ok /\ m.ok /\ PairingCheck(p.v.value, m.v,
                                    PolyEvalPublic(polynomial, p.v.index).value)

\* ThresholdScheme::aggregate(threshold, partials)
SchemeAggregate(threshold, partials) ==
    IF threshold > Len(partials) THEN Err
    ELSE LET ds == [k \in 1..Len(partials) |-> DePartial(partials[k])]
         IN IF \E k \in 1..Len(ds) : ~ds[k].ok THEN Err
            ELSE LET r == PolyRecover(threshold, [k \in 1..Len(ds) |-> ds[k].v])
                 IN IF r.ok THEN Ok(SerG1(r.v)) ELSE Err

(***************************************************************************)
(* The boundary.  A pointer argument is NULL or points at a value; an      *)
(* output pointer points at the caller's location that will be written.    *)
(* An entry point is an operator from its arguments to the outcome of the  *)
(* call:                                                                   *)
(*   ret    the boolean returned (TRUE for a void function that returned), *)
(*   panic  the call panicked instead of returning,                        *)
(*   ub     the call dereferenced a NULL pointer,                          *)
(*   deref  the pointer parameters dereferenced,                           *)
(*   wrote  the output parameters written,                                 *)
(*   buf    the bytes written to an output buffer,                         *)
(*   obj    the value boxed into a new handle,                             *)
(*   freed  the handle parameters whose box was dropped.                   *)
(***************************************************************************)
NULL == [null |-> TRUE, at |-> <<>>]
Ptr(v) == [null |-> FALSE, at |-> v]
is_null(p) == p.null

NoBytes == <<>>
NoObj == <<>>

Outcome(ret, deref, wrote, buf, obj) ==
    [ret |-> ret, panic |-> FALSE, ub |-> FALSE, deref |-> deref, wrote |-> wrote,
     buf |-> buf, obj |-> obj, freed |-> {}]
\* an early `return false`: nothing dereferenced after the checks, nothing written
ReturnFalse(deref) == Outcome(FALSE, deref, {}, NoBytes, NoObj)
Panicked(deref) ==
    [ret |-> FALSE, panic |-> TRUE, ub |-> FALSE, deref |-> deref, wrote |-> {},
     buf |-> NoBytes, obj |-> NoObj, freed |-> {}]
Undefined(deref) ==
    [ret |-> FALSE, panic |-> FALSE, ub |-> TRUE, deref |-> deref, wrote |-> {},
     buf |-> NoBytes, obj |-> NoObj, freed |-> {}]
\* Box::from_raw(ptr), dropped at once: the handle passed for `param` is
\* released
Released(param) ==
    [ret |-> TRUE, panic |-> FALSE, ub |-> FALSE, deref |-> {param}, wrote |-> {},
     buf |-> NoBytes, obj |-> NoObj, freed |-> {param}]

\* blind without the check of its last parameter
blind_token_out_unchecked(message, seed, blinded_message_out, blinding_factor_out) ==
    IF is_null(message) \/ is_null(seed) \/ is_null(blinded_message_out)
    THEN ReturnFalse({})
    ELSE IF from_slice_panics(seed.at) THEN Panicked({"seed"})
    ELSE IF is_null(blinding_factor_out)
    THEN Undefined({"seed", "message", "blinding_factor_out"})
    ELSE LET rng == get_rng(seed.at)
             b == SchemeBlindMsg(message.at, rng)
         IN Outcome(TRUE, {"seed", "message"},
                    {"blinded_message_out", "blinding_factor_out"},
                    b.blinded, b.token)

blind(message, seed, blinded_message_out, blinding_factor_out) ==
    IF is_null(message) \/ is_null(seed) \/ is_null(blinded_message_out)
       \/ is_null(blinding_factor_out)
    THEN ReturnFalse({})
    ELSE IF from_slice_panics(seed.at) THEN Panicked({"seed"})
    ELSE LET rng == get_rng(seed.at)
             b == SchemeBlindMsg(message.at, rng)
         IN Outcome(TRUE, {"seed", "message"},
                    {"blinded_message_out", "blinding_factor_out"},
                    b.blinded, b.token)

\* unblind handing back the input when it cannot be unblinded
unblind_writes_on_error(blinded_signature, blinding_factor, unblinded_signature) ==
    IF is_null(blinded_signature) \/ is_null(blinding_factor) \/ is_null(unblinded_signature)
    THEN ReturnFalse({})
    ELSE LET sig == SchemeUnblindSig(blinding_factor.at, blinded_signature.at)
         IN IF ~sig.ok
            THEN Outcome(FALSE, {"blinded_signature", "blinding_factor"},
                         {"unblinded_signature"}, blinded_signature.at, NoObj)
            ELSE Outcome(TRUE, {"blinded_signature", "blinding_factor"},
                         {"unblinded_signature"}, sig.v, NoObj)

\* unblind taking the Token by value: its box is dropped on return
unblind_consuming_token(blinded_signature, blinding_factor, unblinded_signature) ==
    IF is_null(blinded_signature) \/ is_null(blinding_factor) \/ is_null(unblinded_signature)
    THEN ReturnFalse({})
    ELSE LET sig == SchemeUnblindSig(blinding_factor.at, blinded_signature.at)
         IN IF ~sig.ok
            THEN [ReturnFalse({"blinded_signature", "blinding_factor"})
                     EXCEPT !.freed = {"blinding_factor"}]
            ELSE [Outcome(TRUE, {"blinded_signature", "blinding_factor"},
                          {"unblinded_signature"}, sig.v, NoObj)
                     EXCEPT !.freed = {"blinding_factor"}]

unblind(blinded_signature, blinding_factor, unblinded_signature) ==
    IF is_null(blinded_signature) \/ is_null(blinding_factor) \/ is_null(unblinded_signature)
    THEN ReturnFalse({})
    ELSE LET sig == SchemeUnblindSig(blinding_factor.at, blinded_signature.at)
         IN IF ~sig.ok THEN ReturnFalse({"blinded_signature", "blinding_factor"})
            ELSE Outcome(TRUE, {"blinded_signature", "blinding_factor"},
                         {"unblinded_signature"}, sig.v, NoObj)

verify(public_key, message, signature) ==
    IF is_null(public_key) \/ is_null(message) \/ is_null(signature)
    THEN ReturnFalse({})
    ELSE Outcome(SchemeVerify(public_key.at, message.at, signature.at),
                 {"public_key", "message", "signature"}, {}, NoBytes, NoObj)

sign(private_key, message, signature) ==
    IF is_null(private_key) \/ is_null(message) \/ is_null(signature)
    THEN ReturnFalse({})
    ELSE LET sig == SchemeSign(private_key.at, message.at)
         IN IF ~sig.ok THEN ReturnFalse({"private_key", "message"})
            ELSE Outcome(TRUE, {"private_key", "message"}, {"signature"}, sig.v, NoObj)

\* sign_blinded_message calling the plain sign, which hashes its input again
sign_blinded_message_rehashed(private_key, message, signature) ==
    IF is_null(private_key) \/ is_null(message) \/ is_null(signature)
    THEN ReturnFalse({})
    ELSE LET sig == SchemeSign(private_key.at, message.at)
         IN IF ~sig.ok THEN ReturnFalse({"private_key", "message"})
            ELSE Outcome(TRUE, {"private_key", "message"}, {"signature"}, sig.v, NoObj)

sign_blinded_message(private_key, message, signature) ==
    IF is_null(private_key) \/ is_null(message) \/ is_null(signature)
    THEN ReturnFalse({})
    ELSE LET sig == SchemeBlindSign(private_key.at, message.at)
         IN IF ~sig.ok THEN ReturnFalse({"private_key", "message"})
            ELSE Outcome(TRUE, {"private_key", "message"}, {"signature"}, sig.v, NoObj)

partial_sign(share, message, signature) ==
    IF is_null(share) \/ is_null(message) \/ is_null(signature)
    THEN ReturnFalse({})
    ELSE LET sig == SchemePartialSign(share.at, message.at)
         IN IF ~sig.ok THEN ReturnFalse({"share", "message"})
            ELSE Outcome(TRUE, {"share", "message"}, {"signature"}, sig.v, NoObj)

partial_sign_blinded_message(share, blinded_message, signature) ==
    IF is_null(share) \/ is_null(blinded_message) \/ is_null(signature)
    THEN ReturnFalse({})
    ELSE LET sig == SchemeSignBlindPartial(share.at, blinded_message.at)
         IN IF ~sig.ok THEN ReturnFalse({"share", "blinded_message"})
            ELSE Outcome(TRUE, {"share", "blinded_message"}, {"signature"}, sig.v, NoObj)

\* partial_verify reporting that the check ran, not what it found
partial_verify_result_dropped(polynomial, blinded_message, signature) ==
    IF is_null(polynomial) \/ is_null(blinded_message) \/ is_null(signature)
    THEN ReturnFalse({})
    ELSE Outcome(TRUE, {"polynomial", "blinded_message", "signature"}, {}, NoBytes, NoObj)

partial_verify(polynomial, blinded_message, signature) ==
    IF is_null(polynomial) \/ is_null(blinded_message) \/ is_null(signature)
    THEN ReturnFalse({})
    ELSE Outcome(SchemePartialVerify(polynomial.at, blinded_message.at, signature.at),
                 {"polynomial", "blinded_message", "signature"}, {}, NoBytes, NoObj)

partial_verify_blind_signature(polynomial, blinded_message, signature) ==
    IF is_null(polynomial) \/ is_null(blinded_message) \/ is_null(signature)
    THEN ReturnFalse({})
    ELSE Outcome(SchemeVerifyBlindPartial(polynomial.at, blinded_message.at, signature.at),
                 {"polynomial", "blinded_message", "signature"}, {}, NoBytes, NoObj)

\* slice::chunks_exact(w): the pieces of w bytes, the remainder left out
ChunksExact(bytes, w) ==
    [k \in 1..(Len(bytes) \div w) |-> SubSeq(bytes, (k - 1) * w + 1, k * w)]

\* slice::chunks(w): consecutive pieces of w bytes, the last one shorter
\* when the length is no multiple of w
Chunks(bytes, w) ==
    [k \in 1..((Len(bytes) + w - 1) \div w) |->
        SubSeq(bytes, (k - 1) * w + 1,
               IF k * w <= Len(bytes) THEN k * w ELSE Len(bytes))]

\* combine asking aggregate for as many signatures as it was handed
combine_threshold_from_count(threshold, signatures, asig) ==
    IF is_null(signatures) \/ is_null(asig)
    THEN ReturnFalse({})
    ELSE LET sigs == Chunks(signatures.at, PARTIAL_SIG_LENGTH)
             signature == SchemeAggregate(Len(sigs), sigs)
         IN IF ~signature.ok THEN ReturnFalse({"signatures"})
            ELSE Outcome(TRUE, {"signatures"}, {"asig"}, signature.v, NoObj)

\* combine splitting the buffer at the width of a bare signature
combine_signature_chunks(threshold, signatures, asig) ==
    IF is_null(signatures) \/ is_null(asig)
    THEN ReturnFalse({})
    ELSE LET sigs == Chunks(signatures.at, SIGNATURE_LEN)
             signature == SchemeAggregate(threshold, sigs)
         IN IF ~signature.ok THEN ReturnFalse({"signatures"})
            ELSE Outcome(TRUE, {"signatures"}, {"asig"}, signature.v, NoObj)

\* combine refusing partial signatures that repeat an index
combine_checking_indices(threshold, signatures, asig) ==
    IF is_null(signatures) \/ is_null(asig)
    THEN ReturnFalse({})
    ELSE LET sigs == Chunks(signatures.at, PARTIAL_SIG_LENGTH)
             signature == SchemeAggregate(threshold, sigs)
             repeated == \E j, k \in 1..Len(sigs) :
                            /\ j # k
                            /\ SubSeq(sigs[j], 1, INDEX_LEN) = SubSeq(sigs[k], 1, INDEX_LEN)
         IN IF ~signature.ok \/ repeated THEN ReturnFalse({"signatures"})
            ELSE Outcome(TRUE, {"signatures"}, {"asig"}, signature.v, NoObj)

\* combine numbering the partial signatures by their place in the buffer
combine_positional_indices(threshold, signatures, asig) ==
    IF is_null(signatures) \/ is_null(asig)
    THEN ReturnFalse({})
    ELSE LET chunks == Chunks(signatures.at, PARTIAL_SIG_LENGTH)
             sigs == [k \in 1..Len(chunks) |->
                        IF Len(chunks[k]) = PARTIAL_SIG_LENGTH
                        THEN EncodeLE(k - 1, INDEX_LEN)
                             \o SubSeq(chunks[k], INDEX_LEN + 1, PARTIAL_SIG_LENGTH)
                        ELSE chunks[k]]
             signature == SchemeAggregate(threshold, sigs)
         IN IF ~signature.ok THEN ReturnFalse({"signatures"})
            ELSE Outcome(TRUE, {"signatures"}, {"asig"}, signature.v, NoObj)

combine(threshold, signatures, asig) ==
    IF is_null(signatures) \/ is_null(asig)
    THEN ReturnFalse({})
    ELSE LET sigs == Chunks(signatures.at, PARTIAL_SIG_LENGTH)
             signature == SchemeAggregate(threshold, sigs)
         IN IF ~signature.ok THEN ReturnFalse({"signatures"})
            ELSE Outcome(TRUE, {"signatures"}, {"asig"}, signature.v, NoObj)

(***************************************************************************)
(* Serialization entry points.  `kind` stands for the type parameter T of  *)
(* the generic helpers.  No pointer is checked: a NULL argument is         *)
(* dereferenced.                                                           *)
(***************************************************************************)
BincodeSerialize(kind, obj) ==
    IF kind = "PrivateKey" THEN SerScalar(obj)
    ELSE IF kind = "PublicKey" THEN SerG2(obj)
    ELSE SerG1(obj)

BincodeDeserialize(kind, buf) ==
    IF kind = "PrivateKey" THEN DeScalar(buf)
    ELSE IF kind = "PublicKey" THEN DeG2(buf)
    ELSE DeG1(buf)

deserialize(kind, in_buf, len, out) ==
    IF is_null(in_buf) THEN Undefined({"in_buf"})
    ELSE IF Len(in_buf.at) < len THEN Undefined({"in_buf"})
    ELSE LET obj == BincodeDeserialize(kind, SubSeq(in_buf.at, 1, len))
         IN IF ~obj.ok THEN ReturnFalse({"in_buf"})
            ELSE IF is_null(out) THEN Undefined({"in_buf", "out"})
            ELSE Outcome(TRUE, {"in_buf"}, {"out"}, NoBytes, obj.v)

serialize(kind, in_obj, out_bytes) ==
    IF is_null(in_obj) THEN Undefined({"in_obj"})
    ELSE LET marshalled == BincodeSerialize(kind, in_obj.at)
         IN IF is_null(out_bytes) THEN Undefined({"in_obj", "out_bytes"})
            ELSE Outcome(TRUE, {"in_obj"}, {"out_bytes"}, marshalled, NoObj)

\* deserialize_privkey reading the width of a public key
deserialize_privkey_pubkey_len(privkey_buf, privkey) ==
    deserialize("PrivateKey", privkey_buf, PUBKEY_LEN, privkey)

deserialize_pubkey(pubkey_buf, pubkey) == deserialize("PublicKey", pubkey_buf, PUBKEY_LEN, pubkey)
deserialize_privkey(privkey_buf, privkey) == deserialize("PrivateKey", privkey_buf, PRIVKEY_LEN, privkey)
deserialize_sig(sig_buf, sig) == deserialize("Signature", sig_buf, SIGNATURE_LEN, sig)
serialize_pubkey(pubkey, pubkey_buf) == serialize("PublicKey", pubkey, pubkey_buf)
serialize_privkey(privkey, privkey_buf) == serialize("PrivateKey", privkey, privkey_buf)
serialize_sig(sig, sig_buf) == serialize("Signature", sig, sig_buf)

(***************************************************************************)
(* Key generation helpers and accessors.                                   *)
(***************************************************************************)
\* threshold_keygen taking the public key of the first share for the
\* threshold public key
threshold_keygen_first_share_key(n, t, seed, keys) ==
    IF is_null(seed) THEN Undefined({"seed"})
    ELSE IF from_slice_panics(seed.at) THEN Panicked({"seed"})
    ELSE IF t = 0 THEN Panicked({"seed"})
    ELSE IF is_null(keys) THEN Undefined({"seed", "keys"})
    ELSE LET rng == get_rng(seed.at)
             private == PolyNewFrom(t - 1, rng)
             shares == [k \in 1..n |->
                          LET e == PolyEval(private, k - 1)
                          IN [index |-> e.index, private |-> e.value]]
             polynomial == PolyCommit(private)
             threshold_public_key == PolyEvalPublic(polynomial, 0).value
         IN Outcome(TRUE, {"seed"}, {"keys"}, NoBytes,
                    [shares |-> shares, polynomial |-> polynomial,
                     threshold_public_key |-> threshold_public_key,
                     t |-> t, n |-> n])

\* threshold_keygen drawing a polynomial of degree t
threshold_keygen_degree_t(n, t, seed, keys) ==
    IF is_null(seed) THEN Undefined({"seed"})
    ELSE IF from_slice_panics(seed.at) THEN Panicked({"seed"})
    ELSE IF t = 0 THEN Panicked({"seed"})
    ELSE IF is_null(keys) THEN Undefined({"seed", "keys"})
    ELSE LET rng == get_rng(seed.at)
             private == PolyNewFrom(t, rng)
             shares == [k \in 1..n |->
                          LET e == PolyEval(private, k - 1)
                          IN [index |-> e.index, private |-> e.value]]
             polynomial == PolyCommit(private)
             threshold_public_key == PolyPublicKey(polynomial)
         IN Outcome(TRUE, {"seed"}, {"keys"}, NoBytes,
                    [shares |-> shares, polynomial |-> polynomial,
                     threshold_public_key |-> threshold_public_key,
                     t |-> t, n |-> n])

\* void; panics in get_rng on a short seed and on t - 1 for t = 0
threshold_keygen(n, t, seed, keys) ==
    IF is_null(seed) THEN Undefined({"seed"})
    ELSE IF from_slice_panics(seed.at) THEN Panicked({"seed"})
    ELSE IF t = 0 THEN Panicked({"seed"})
    ELSE IF is_null(keys) THEN Undefined({"seed", "keys"})
    ELSE LET rng == get_rng(seed.at)
             private == PolyNewFrom(t - 1, rng)
             shares == [k \in 1..n |->
                          LET e == PolyEval(private, k - 1)
                          IN [index |-> e.index, private |-> e.value]]
             polynomial == PolyCommit(private)
             threshold_public_key == PolyPublicKey(polynomial)
         IN Outcome(TRUE, {"seed"}, {"keys"}, NoBytes,
                    [shares |-> shares, polynomial |-> polynomial,
                     threshold_public_key |-> threshold_public_key,
                     t |-> t, n |-> n])

\* void; panics in get_rng on a short seed
keygen(seed, keypair) ==
    IF is_null(seed) THEN Undefined({"seed"})
    ELSE IF from_slice_panics(seed.at) THEN Panicked({"seed"})
    ELSE IF is_null(keypair) THEN Undefined({"seed", "keypair"})
    ELSE LET rng == get_rng(seed.at)
             kp == SchemeKeypair(rng)
         IN Outcome(TRUE, {"seed"}, {"keypair"}, NoBytes,
                    [private |-> kp.private, public |-> kp.public])

\* &(*keys).shares[index], index counted from 0
share_ptr(keys, index) == Ptr(keys.shares[index + 1])
num_shares(keys) == Len(keys.shares)
polynomial_ptr(keys) == Ptr(keys.polynomial)
threshold_public_key_ptr(keys) == Ptr(keys.threshold_public_key)
public_key_ptr(keypair) == Ptr(keypair.public)
private_key_ptr(keypair) == Ptr(keypair.private)

(***************************************************************************)
(* Release.  Each destroy_* rebuilds the Box from the raw pointer and      *)
(* drops it, with no check of the pointer.                                 *)
(***************************************************************************)
destroy_token(token) == IF is_null(token) THEN Undefined({"token"}) ELSE Released("token")
destroy_keys(keys) == IF is_null(keys) THEN Undefined({"keys"}) ELSE Released("keys")
destroy_keypair(keypair) ==
    IF is_null(keypair) THEN Undefined({"keypair"}) ELSE Released("keypair")
destroy_privkey(private_key) ==
    IF is_null(private_key) THEN Undefined({"private_key"}) ELSE Released("private_key")
destroy_pubkey(public_key) ==
    IF is_null(public_key) THEN Undefined({"public_key"}) ELSE Released("public_key")
destroy_sig(signature) ==
    IF is_null(signature) THEN Undefined({"signature"}) ELSE Released("signature")

(***************************************************************************)
(* The caller.  Its memory holds the locations the tests of ffi.rs pass to *)
(* the entry points: handle locations (keys, keypair, blinding_factor, de) *)
(* and buffers (blinded_message, the collected partial signatures sigs,    *)
(* asig, sig, unblinded, ser_buf).                                         *)
(***************************************************************************)
VARIABLES
    msg,              \* the message the caller wants signed
    should_blind,     \* whether the caller runs the blind variant
    keys,             \* *mut Keys written by threshold_keygen
    keypair,          \* *mut Keypair written by keygen
    blinding_factor,  \* *mut Token written by blind
    blinded_message,  \* Buffer written by blind
    sigs,             \* the partial signatures collected so far
    signers,          \* the share handed to partial_sign for each of sigs
    asig,             \* Buffer written by combine
    aggregated,       \* threshold and buffer length of the successful combine
    sig,              \* Buffer written by sign / sign_blinded_message
    unblinded,        \* Buffer written by unblind
    ser_buf,          \* *mut u8 written by serialize_*
    de,               \* handle written by deserialize_*
    last              \* the outcome of the latest call

vars == <<first_made, msg, should_blind, keys, keypair, blinding_factor, blinded_message,
          sigs, signers, asig, aggregated, sig, unblinded, ser_buf, de, last>>

\* MaybeUninit locations
UninitHandle == [st |-> "uninit", val |-> <<>>]
LiveHandle(v) == [st |-> "live", val |-> v]
\* the handle after its box was dropped, if the call dropped it
AfterCall(h, param, r) == IF param \in r.freed THEN [h EXCEPT !.st = "freed"] ELSE h
UninitBuffer == [init |-> FALSE, bytes |-> <<>>]
InitBuffer(b) == [init |-> TRUE, bytes |-> b]

Seed(byte, len) == [i \in 1..len |-> byte]
\* seeds as the tests build them: one byte repeated; one seed too short, and
\* seeds that differ only after the first SEED_LEN bytes
Seeds ==
    {Seed(97, l) : l \in (SEED_LEN - 1)..MaxSeedLen}
    \cup {Seed(98, SEED_LEN)}
    \cup {Seed(97, SEED_LEN) \o Seed(98, l) : l \in 1..(MaxSeedLen - SEED_LEN)}
ValidSeeds == {s \in Seeds : Len(s) >= SEED_LEN}

\* the message of the tests and the same message with one bit flipped
Msgs == {<<1, 2, 3, 4, 6>>, <<1, 2, 3, 4, 7>>}

NoCall ==
    [op |-> "none", ret |-> TRUE, panic |-> FALSE, ub |-> FALSE, nullArg |-> FALSE,
     deref |-> {}, wrote |-> {}, arg |-> 0]
\* the pointer parameters of each entry point
ParamsOf(op) ==
    IF op = "blind" THEN {"message", "seed", "blinded_message_out", "blinding_factor_out"}
    ELSE IF op = "unblind"
    THEN {"blinded_signature", "blinding_factor", "unblinded_signature"}
    ELSE IF op = "verify" THEN {"public_key", "message", "signature"}
    ELSE IF op \in {"sign", "sign_blinded_message"}
    THEN {"private_key", "message", "signature"}
    ELSE IF op = "partial_sign" THEN {"share", "message", "signature"}
    ELSE IF op = "partial_sign_blinded_message"
    THEN {"share", "blinded_message", "signature"}
    ELSE IF op \in {"partial_verify", "partial_verify_blind_signature"}
    THEN {"polynomial", "blinded_message", "signature"}
    ELSE IF op = "combine" THEN {"signatures", "asig"}
    ELSE IF op = "serialize" THEN {"in_obj", "out_bytes"}
    ELSE IF op = "deserialize" THEN {"in_buf", "out"}
    ELSE IF op = "keygen" THEN {"seed", "keypair"}
    ELSE IF op = "destroy_token" THEN {"token"}
    ELSE IF op = "destroy_keys" THEN {"keys"}
    ELSE IF op = "destroy_keypair" THEN {"keypair"}
    ELSE IF op = "destroy_privkey" THEN {"private_key"}
    ELSE IF op = "destroy_pubkey" THEN {"public_key"}
    ELSE IF op = "destroy_sig" THEN {"signature"}
    ELSE {"seed", "keys"}

\* what the caller observes of a call
Note(op, r, nulls, arg) ==
    [op |-> op, ret |-> r.ret, panic |-> r.panic, ub |-> r.ub,
     nullArg |-> nulls \cap ParamsOf(op) # {},
     deref |-> r.deref, wrote |-> r.wrote, arg |-> arg]

\* the argument passed for parameter `name`: NULL when the caller nulls it
Arg(nulls, name, v) == IF name \in nulls THEN NULL ELSE Ptr(v)

\* a panic or a NULL dereference ends the process
Running == ~last.panic /\ ~last.ub

\* first_made remembers, for each constructor, the arguments and the result
\* of its first successful call
Constructors == {"blind", "keygen", "threshold_keygen"}
NothingMade == [op \in Constructors |-> [made |-> FALSE, in |-> <<>>, out |-> <<>>]]
\* first_made after a constructor call
Made(op, r, in, out) ==
    IF r.ret /\ ~first_made[op].made
    THEN [first_made EXCEPT ![op] = [made |-> TRUE, in |-> in, out |-> out]]
    ELSE first_made
\* the call repeats the remembered one
Again(op, in) == first_made[op].made /\ first_made[op].in = in
\* the call repeats the remembered one but for the bytes of the seed (the
\* last argument) that follow its first SEED_LEN bytes
AgainUpTo32(op, in) ==
    /\ first_made[op].made
    /\ LET was == first_made[op].in
       IN /\ \A k \in 1..(Len(in) - 1) : was[k] = in[k]
          /\ Len(in[Len(in)]) >= SEED_LEN
          /\ SubSeq(was[Len(in)], 1, SEED_LEN) = SubSeq(in[Len(in)], 1, SEED_LEN)

Init ==
    /\ first_made = NothingMade
    /\ msg \in Msgs
    /\ should_blind \in BOOLEAN
    /\ keys = UninitHandle
    /\ keypair = UninitHandle
    /\ blinding_factor = UninitHandle
    /\ blinded_message = UninitBuffer
    /\ sigs = <<>>
    /\ signers = <<>>
    /\ asig = UninitBuffer
    /\ aggregated = [threshold |-> 0, len |-> 0]
    /\ sig = UninitBuffer
    /\ unblinded = UninitBuffer
    /\ ser_buf = [init |-> FALSE, bytes |-> <<>>, kind |-> "none", obj |-> <<>>]
    /\ de = [st |-> "uninit", val |-> <<>>, kind |-> "none"]
    /\ last = NoCall

\* what the signers are given: the blinded message in the blind variant
message_to_sign == IF should_blind THEN blinded_message.bytes ELSE msg

\* bytes no decoder accepts
Garbage(len) == [i \in 1..len |-> 255]

Call_threshold_keygen(nulls, n, t, seed) ==
    /\ Running
    /\ LET r == threshold_keygen(n, t, Arg(nulls, "seed", seed), Arg(nulls, "keys", "keys"))
       IN /\ keys' = IF "keys" \in r.wrote THEN LiveHandle(r.obj) ELSE keys
          /\ first_made' = Made("threshold_keygen", r, <<n, t, seed>>, r.obj)
          /\ last' = Note("threshold_keygen", r, nulls,
                          [n |-> n, t |-> t, len |-> Len(seed),
                           again |-> Again("threshold_keygen", <<n, t, seed>>),
                           again32 |-> AgainUpTo32("threshold_keygen", <<n, t, seed>>)])
    /\ UNCHANGED <<msg, should_blind, keypair, blinding_factor, blinded_message, sigs,
                   signers, asig, aggregated, sig, unblinded, ser_buf, de>>

Call_keygen(nulls, seed) ==
    /\ Running
    /\ LET r == keygen(Arg(nulls, "seed", seed), Arg(nulls, "keypair", "keypair"))
       IN /\ keypair' = IF "keypair" \in r.wrote THEN LiveHandle(r.obj) ELSE keypair
          /\ first_made' = Made("keygen", r, <<seed>>, r.obj)
          /\ last' = Note("keygen", r, nulls,
                          [len |-> Len(seed),
                           again |-> Again("keygen", <<seed>>),
                           again32 |-> AgainUpTo32("keygen", <<seed>>)])
    /\ UNCHANGED <<msg, should_blind, keys, blinding_factor, blinded_message, sigs,
                   signers, asig, aggregated, sig, unblinded, ser_buf, de>>

Call_blind(nulls, seed) ==
    /\ Running
    /\ should_blind
    /\ LET r == blind(Arg(nulls, "message", msg), Arg(nulls, "seed", seed),
                      Arg(nulls, "blinded_message_out", "blinded_message"),
                      Arg(nulls, "blinding_factor_out", "blinding_factor"))
       IN /\ blinded_message' = IF "blinded_message_out" \in r.wrote
                                THEN InitBuffer(r.buf) ELSE blinded_message
          /\ blinding_factor' = IF "blinding_factor_out" \in r.wrote
                                THEN LiveHandle(r.obj) ELSE blinding_factor
          /\ first_made' = Made("blind", r, <<msg, seed>>, <<r.obj, r.buf>>)
          /\ last' = Note("blind", r, nulls,
                          [len |-> Len(seed),
                           again |-> Again("blind", <<msg, seed>>),
                           again32 |-> AgainUpTo32("blind", <<msg, seed>>)])
    /\ UNCHANGED <<msg, should_blind, keys, keypair, sigs, signers, asig, aggregated,
                   sig, unblinded, ser_buf, de>>

\* a share whose private value is not the polynomial's value at its index
Corrupted(share) == [index |-> share.index, private |-> FAdd(share.private, 1)]

\* partial_sign_fn of the tests (partial_sign, or partial_sign_blinded_message
\* when blinding) on message buffer m; the result is pushed on sigs
Call_partial_sign(nulls, share, m) ==
    /\ Running
    /\ LET r == IF should_blind
                THEN partial_sign_blinded_message(Arg(nulls, "share", share),
                         Arg(nulls, "blinded_message", m),
                         Arg(nulls, "signature", "partial_sig"))
                ELSE partial_sign(Arg(nulls, "share", share),
                         Arg(nulls, "message", m),
                         Arg(nulls, "signature", "partial_sig"))
       IN /\ sigs' = IF "signature" \in r.wrote THEN Append(sigs, r.buf) ELSE sigs
          /\ signers' = IF "signature" \in r.wrote THEN Append(signers, share) ELSE signers
          /\ last' = Note(IF should_blind THEN "partial_sign_blinded_message"
                          ELSE "partial_sign", r, nulls, share.index)
    /\ UNCHANGED <<first_made, msg, should_blind, keys, keypair, blinding_factor,
                   blinded_message, asig, aggregated, sig, unblinded, ser_buf, de>>

\* partial_verify_fn of the tests on the k-th collected partial signature
Call_partial_verify(nulls, k) ==
    /\ Running
    /\ keys.st = "live"
    /\ k \in 1..Len(sigs)
    /\ LET r == IF should_blind
                THEN partial_verify_blind_signature(
                         Arg(nulls, "polynomial", polynomial_ptr(keys.val).at),
                         Arg(nulls, "blinded_message", message_to_sign),
                         Arg(nulls, "signature", sigs[k]))
                ELSE partial_verify(
                         Arg(nulls, "polynomial", polynomial_ptr(keys.val).at),
                         Arg(nulls, "blinded_message", message_to_sign),
                         Arg(nulls, "signature", sigs[k]))
       IN last' = Note(IF should_blind THEN "partial_verify_blind_signature"
                       ELSE "partial_verify", r, nulls, k)
    /\ UNCHANGED <<first_made, msg, should_blind, keys, keypair, blinding_factor,
                   blinded_message, sigs, signers, asig, aggregated, sig, unblinded,
                   ser_buf, de>>

RECURSIVE Concat(_)
\* concatenated.extend_from_slice for each collected partial signature
Concat(ss) == IF ss = <<>> THEN <<>> ELSE Head(ss) \o Concat(Tail(ss))

\* combine on the first len bytes of the concatenated partial signatures
Call_combine(nulls, threshold, len) ==
    /\ Running
    /\ len \in 0..Len(Concat(sigs))
    /\ LET r == combine(threshold,
                        Arg(nulls, "signatures", SubSeq(Concat(sigs), 1, len)),
                        Arg(nulls, "asig", "asig"))
       IN /\ asig' = IF "asig" \in r.wrote THEN InitBuffer(r.buf) ELSE asig
          /\ aggregated' = IF "asig" \in r.wrote
                           THEN [threshold |-> threshold, len |-> len] ELSE aggregated
          /\ last' = Note("combine", r, nulls, <<threshold, len>>)
    /\ UNCHANGED <<first_made, msg, should_blind, keys, keypair, blinding_factor,
                   blinded_message, sigs, signers, sig, unblinded, ser_buf, de>>

\* the signature buffer the caller hands on: asig of the threshold pipeline,
\* sig of the single-key pipeline, or bytes that are no signature
SignedBuffer(which) ==
    IF which = "threshold" THEN asig
    ELSE IF which = "single" THEN sig
    ELSE InitBuffer(Garbage(SIGNATURE_LEN))

Call_unblind(nulls, which) ==
    /\ Running
    /\ blinding_factor.st = "live"
    /\ SignedBuffer(which).init
    /\ LET r == unblind(Arg(nulls, "blinded_signature", SignedBuffer(which).bytes),
                        Arg(nulls, "blinding_factor", blinding_factor.val),
                        Arg(nulls, "unblinded_signature", "unblinded"))
       IN /\ unblinded' = IF "unblinded_signature" \in r.wrote
                          THEN InitBuffer(r.buf) ELSE unblinded
          /\ blinding_factor' = AfterCall(blinding_factor, "blinding_factor", r)
          \* again: an earlier unblind with this Token has written unblinded
          /\ last' = Note("unblind", r, nulls,
                          [which |-> which, again |-> unblinded.init])
    /\ UNCHANGED <<first_made, msg, should_blind, keys, keypair, blinded_message,
                   sigs, signers, asig, aggregated, sig, ser_buf, de>>

\* the signature the caller finally holds
FinalSignature(which) == IF should_blind THEN unblinded ELSE SignedBuffer(which)
PublicKeyOf(which) ==
    IF which = "threshold" THEN threshold_public_key_ptr(keys.val).at
    ELSE public_key_ptr(keypair.val).at
HasPublicKey(which) ==
    IF which = "threshold" THEN keys.st = "live" ELSE keypair.st = "live"

\* verify of the final signature against message m
Call_verify(nulls, which, m) ==
    /\ Running
    /\ HasPublicKey(which)
    /\ FinalSignature(which).init
    /\ LET r == verify(Arg(nulls, "public_key", PublicKeyOf(which)),
                       Arg(nulls, "message", m),
                       Arg(nulls, "signature", FinalSignature(which).bytes))
       IN last' = Note("verify", r, nulls, IF m = msg THEN 1 ELSE 0)
    /\ UNCHANGED <<first_made, msg, should_blind, keys, keypair, blinding_factor,
                   blinded_message, sigs, signers, asig, aggregated, sig, unblinded,
                   ser_buf, de>>

\* sign_fn of the tests (sign, or sign_blinded_message when blinding) on
\* message buffer m
Call_sign(nulls, m) ==
    /\ Running
    /\ keypair.st = "live"
    /\ LET r == IF should_blind
                THEN sign_blinded_message(
                         Arg(nulls, "private_key", private_key_ptr(keypair.val).at),
                         Arg(nulls, "message", m),
                         Arg(nulls, "signature", "sig"))
                ELSE sign(Arg(nulls, "private_key", private_key_ptr(keypair.val).at),
                          Arg(nulls, "message", m),
                          Arg(nulls, "signature", "sig"))
       IN /\ sig' = IF "signature" \in r.wrote THEN InitBuffer(r.buf) ELSE sig
          /\ last' = Note(IF should_blind THEN "sign_blinded_message" ELSE "sign",
                          r, nulls, 0)
    /\ UNCHANGED <<first_made, msg, should_blind, keys, keypair, blinding_factor,
                   blinded_message, sigs, signers, asig, aggregated, unblinded, ser_buf, de>>

Kinds == {"PrivateKey", "PublicKey", "Signature"}
KindLen(kind) ==
    IF kind = "PrivateKey" THEN PRIVKEY_LEN
    ELSE IF kind = "PublicKey" THEN PUBKEY_LEN ELSE SIGNATURE_LEN

\* the handles of each kind the caller can hand to serialize_*
HandlesOf(kind) ==
    (IF kind = "PrivateKey" /\ keypair.st = "live"
     THEN {private_key_ptr(keypair.val).at} ELSE {})
    \cup (IF kind = "PublicKey" /\ keypair.st = "live"
          THEN {public_key_ptr(keypair.val).at} ELSE {})
    \cup (IF de.st = "live" /\ de.kind = kind THEN {de.val} ELSE {})

Call_serialize(nulls, kind) ==
    /\ Running
    /\ \E obj \in HandlesOf(kind) :
        LET r == IF kind = "PrivateKey"
                 THEN serialize_privkey(Arg(nulls, "in_obj", obj),
                                        Arg(nulls, "out_bytes", "ser_buf"))
                 ELSE IF kind = "PublicKey"
                 THEN serialize_pubkey(Arg(nulls, "in_obj", obj),
                                       Arg(nulls, "out_bytes", "ser_buf"))
                 ELSE serialize_sig(Arg(nulls, "in_obj", obj),
                                    Arg(nulls, "out_bytes", "ser_buf"))
        IN /\ ser_buf' = IF "out_bytes" \in r.wrote
                         THEN [init |-> TRUE, bytes |-> r.buf, kind |-> kind, obj |-> obj]
                         ELSE ser_buf
           /\ last' = Note("serialize", r, nulls, kind)
    /\ UNCHANGED <<first_made, msg, should_blind, keys, keypair, blinding_factor,
                   blinded_message, sigs, signers, asig, aggregated, sig, unblinded, de>>

\* the byte arrays the caller can hand to deserialize_*: what serialize_*
\* returned for that kind, a signature buffer, or undecodable bytes
InputBytes(kind) ==
    {Garbage(KindLen(kind))}
    \cup (IF ser_buf.init /\ ser_buf.kind = kind THEN {ser_buf.bytes} ELSE {})
    \cup (IF kind = "Signature" /\ sig.init THEN {sig.bytes} ELSE {})

Call_deserialize(nulls, kind) ==
    /\ Running
    /\ \E bytes \in InputBytes(kind) :
        LET r == IF kind = "PrivateKey"
                 THEN deserialize_privkey(Arg(nulls, "in_buf", bytes), Arg(nulls, "out", "de"))
                 ELSE IF kind = "PublicKey"
                 THEN deserialize_pubkey(Arg(nulls, "in_buf", bytes), Arg(nulls, "out", "de"))
                 ELSE deserialize_sig(Arg(nulls, "in_buf", bytes), Arg(nulls, "out", "de"))
        IN /\ de' = IF "out" \in r.wrote
                    THEN [st |-> "live", val |-> r.obj, kind |-> kind] ELSE de
           /\ last' = Note("deserialize", r, nulls,
                           <<kind, ser_buf.init /\ ser_buf.kind = kind
                                   /\ bytes = ser_buf.bytes>>)
    /\ UNCHANGED <<first_made, msg, should_blind, keys, keypair, blinding_factor,
                   blinded_message, sigs, signers, asig, aggregated, sig, unblinded,
                   ser_buf>>

Call_destroy_token ==
    /\ Running
    /\ LET r == destroy_token(Ptr(blinding_factor.val))
       IN /\ blinding_factor' = AfterCall(blinding_factor, "token", r)
          /\ last' = Note("destroy_token", r, {}, 0)
    /\ UNCHANGED <<first_made, msg, should_blind, keys, keypair, blinded_message, sigs,
                   signers, asig, aggregated, sig, unblinded, ser_buf, de>>

Call_destroy_keys ==
    /\ Running
    /\ LET r == destroy_keys(Ptr(keys.val))
       IN /\ keys' = AfterCall(keys, "keys", r)
          /\ last' = Note("destroy_keys", r, {}, 0)
    /\ UNCHANGED <<first_made, msg, should_blind, keypair, blinding_factor,
                   blinded_message, sigs, signers, asig, aggregated, sig, unblinded,
                   ser_buf, de>>

Call_destroy_keypair ==
    /\ Running
    /\ LET r == destroy_keypair(Ptr(keypair.val))
       IN /\ keypair' = AfterCall(keypair, "keypair", r)
          /\ last' = Note("destroy_keypair", r, {}, 0)
    /\ UNCHANGED <<first_made, msg, should_blind, keys, blinding_factor,
                   blinded_message, sigs, signers, asig, aggregated, sig, unblinded,
                   ser_buf, de>>

\* the destroy_* of the type a deserialize_* returned
DestroyOf(kind) ==
    IF kind = "PrivateKey" THEN "destroy_privkey"
    ELSE IF kind = "PublicKey" THEN "destroy_pubkey" ELSE "destroy_sig"

\* destroy_privkey, destroy_pubkey or destroy_sig on the deserialized object
Call_destroy_deserialized ==
    /\ Running
    /\ LET r == IF de.kind = "PrivateKey" THEN destroy_privkey(Ptr(de.val))
                ELSE IF de.kind = "PublicKey" THEN destroy_pubkey(Ptr(de.val))
                ELSE destroy_sig(Ptr(de.val))
           param == CHOOSE q \in ParamsOf(DestroyOf(de.kind)) : TRUE
       IN /\ de' = AfterCall(de, param, r)
          /\ last' = Note(DestroyOf(de.kind), r, {}, 0)
    /\ UNCHANGED <<first_made, msg, should_blind, keys, keypair, blinding_factor,
                   blinded_message, sigs, signers, asig, aggregated, sig, unblinded,
                   ser_buf>>

(***************************************************************************)
(* Spec: the threshold pipeline of tests::threshold_verify_ffi_should_blind*)
(* for any n, t, seeds, message and any choice of distinct shares.         *)
(***************************************************************************)
UserSeeds == {Seed(98, SEED_LEN), Seed(97, MaxSeedLen)}
KeySeeds == {Seed(97, MaxSeedLen), Seed(97, SEED_LEN - 1)}

Share(i) == share_ptr(keys.val, i).at
HasSigned(i) == \E k \in 1..Len(signers) : signers[k].index = i

Next ==
    \/ \E n \in 1..MaxN, t \in 0..MaxT, seed \in KeySeeds :
          /\ keys.st = "uninit"
          /\ Call_threshold_keygen({}, n, t, seed)
    \/ \E seed \in UserSeeds :
          /\ blinding_factor.st = "uninit"
          /\ Call_blind({}, seed)
    \/ \E i \in 0..(MaxN - 1) :
          /\ keys.st = "live" /\ i < num_shares(keys.val)
          /\ should_blind => blinded_message.init
          /\ ~asig.init /\ Len(sigs) < MaxSigs /\ ~HasSigned(i)
          /\ Call_partial_sign({}, Share(i), message_to_sign)
    \/ \E k \in 1..MaxSigs : Call_partial_verify({}, k)
    \/ \E threshold \in 1..MaxT :
          /\ ~asig.init
          /\ Call_combine({}, threshold, Len(Concat(sigs)))
    \/ /\ should_blind /\ ~unblinded.init
       /\ Call_unblind({}, "threshold")
    \/ \E m \in Msgs : Call_verify({}, "threshold", m)

Spec == Init /\ [][Next]_vars

(***************************************************************************)
(* Properties of the threshold pipeline (Spec).                            *)
(***************************************************************************)
PartialSignOps == {"partial_sign", "partial_sign_blinded_message"}
PartialVerifyOps == {"partial_verify", "partial_verify_blind_signature"}

\* the share of signers[k] is the genuine share of its index
Genuine(k) == signers[k] = Share(signers[k].index)
DistinctSigners ==
    \A j, k \in 1..Len(signers) : j # k => signers[j].index # signers[k].index
\* exactly t partial signatures, made with t distinct genuine shares
ChosenT ==
    /\ keys.st = "live"
    /\ Len(sigs) = keys.val.t
    /\ DistinctSigners
    /\ \A k \in 1..Len(signers) : Genuine(k)
\* combine was given threshold t and the whole concatenation of those t
CombinedT ==
    /\ ChosenT
    /\ asig.init
    /\ aggregated = [threshold |-> keys.val.t, len |-> keys.val.t * PARTIAL_SIG_LENGTH]

\* C1: with n >= t >= 1 and seeds of at least 32 bytes, threshold_keygen and
\* blind return, every partial signature of a genuine share is produced
\* (true) and passes partial_verify / partial_verify_blind_signature against
\* the polynomial, combine with threshold t over the concatenation of the
\* partial signatures of any t distinct shares returns true, unblind returns
\* true in the blind variant, and the final signature verifies against the
\* threshold public key and the original message.
C1_ThresholdPipeline ==
    /\ last.op = "threshold_keygen" /\ last.arg.t >= 1 /\ last.arg.len >= SEED_LEN
          => ~last.panic /\ keys.st = "live"
    /\ last.op = "blind" /\ last.arg.len >= SEED_LEN => last.ret
    /\ last.op \in PartialSignOps => last.ret
    /\ last.op \in PartialVerifyOps /\ Genuine(last.arg) => last.ret
    /\ last.op = "combine" /\ ChosenT
          /\ last.arg = <<keys.val.t, keys.val.t * PARTIAL_SIG_LENGTH>> => last.ret
    /\ last.op = "unblind" /\ CombinedT => last.ret
    /\ last.op = "verify" /\ last.arg = 1 /\ CombinedT => last.ret

\* a blind 2-of-3 run signed by shares 2 and 0, in that order, has verified
C1_Witness ==
    /\ last.op = "verify" /\ last.arg = 1 /\ last.ret
    /\ should_blind /\ CombinedT
    /\ keys.val.t = 2 /\ keys.val.n = 3
    /\ signers[1].index = 2 /\ signers[2].index = 0

\* the secret the shares of Keys interpolate to, committed in G2
SharedSecretCommitment(k) ==
    LET evals == {[index |-> k.shares[j].index, value |-> G1(k.shares[j].private)] :
                     j \in 1..k.t}
    IN G2(LagrangeAtZero(evals, evals))

\* C10: after threshold_keygen the threshold public key of Keys is the
\* constant term of the public polynomial of the same Keys, which is the
\* polynomial's value at 0 and the commitment of the secret the shares
\* interpolate to.
C10_PublicKeyIsConstantTerm ==
    keys.st = "live" =>
        /\ keys.val.threshold_public_key = keys.val.polynomial[1]
        /\ keys.val.threshold_public_key
              = G2(Horner([k \in 1..Len(keys.val.polynomial) |-> keys.val.polynomial[k].e], 1, 0))
        /\ keys.val.t <= keys.val.n
              => keys.val.threshold_public_key = SharedSecretCommitment(keys.val)

C10_Witness ==
    /\ last.op = "threshold_keygen" /\ keys.st = "live"
    /\ keys.val.t = 3 /\ keys.val.n = 3

InitAgg == Init /\ ~should_blind /\ msg = <<1, 2, 3, 4, 6>>

\* the shares the signers may use: the genuine ones and corrupted ones
SharesOf(k) ==
    {share_ptr(k, i).at : i \in 0..(num_shares(k) - 1)}
    \cup {Corrupted(share_ptr(k, i).at) : i \in 0..(num_shares(k) - 1)}

NextAgg ==
    \/ \E t \in 1..MaxT :
          /\ keys.st = "uninit"
          /\ Call_threshold_keygen({}, MaxN, t, Seed(97, SEED_LEN))
    \/ /\ keys.st = "live" /\ ~asig.init /\ Len(sigs) < MaxAggSigs
       /\ \E share \in SharesOf(keys.val) :
             \* at most one signer is corrupted
             /\ share = Share(share.index) \/ \A k \in 1..Len(signers) : Genuine(k)
             /\ Call_partial_sign({}, share, message_to_sign)
    \/ \E k \in 1..MaxAggSigs : Call_partial_verify({}, k)
    \/ \E threshold \in 1..MaxT, cut \in 0..MaxCut :
          /\ ~asig.init
          /\ Call_combine({}, threshold, Len(Concat(sigs)) - cut)
    \/ \E m \in Msgs : Call_verify({}, "threshold", m)

SpecAgg == InitAgg /\ [][NextAgg]_vars

\* C3: combine on a buffer holding fewer than `threshold` partial
\* signatures returns false and writes nothing, whether the partial
\* signatures in it are genuine or not.
C3_TooFewPartials ==
    last.op = "combine" /\ ~last.nullArg
    /\ last.arg[2] \div PARTIAL_SIG_LENGTH < last.arg[1]
        => ~last.ret /\ last.wrote = {} /\ ~asig.init

\* threshold 3 refused on the partial signatures of two shares, one corrupted
C3_Witness ==
    /\ last.op = "combine" /\ ~last.ret
    /\ last.arg = <<3, 2 * PARTIAL_SIG_LENGTH>>
    /\ Len(sigs) = 2
    /\ Genuine(1) /\ ~Genuine(2)

\* C8: partial_verify against the public polynomial accepts the partial
\* signature made by partial_sign with the genuine share of an index and
\* rejects the one made with a share of that index whose private value is
\* not the polynomial's value there.
C8_PartialVerifyGate ==
    last.op = "partial_verify" /\ ~last.nullArg =>
        /\ Genuine(last.arg) => last.ret
        /\ signers[last.arg].private # Share(signers[last.arg].index).private => ~last.ret

\* a genuine and a corrupted partial signature of the same index were
\* collected, and the corrupted one has just been rejected
C8_Witness ==
    /\ last.op = "partial_verify" /\ ~last.ret /\ last.arg = 2
    /\ Len(sigs) = 2
    /\ Genuine(1) /\ ~Genuine(2)
    /\ signers[1].index = signers[2].index

\* the buffer combine was last called on, and the chunks it handed to
\* aggregate
CombinedBuffer == SubSeq(Concat(sigs), 1, last.arg[2])
PassedToAggregate == Chunks(CombinedBuffer, PARTIAL_SIG_LENGTH)

\* C13 as stated: for every buffer length, combine hands to aggregate
\* (length / PARTIAL_SIG_LENGTH) chunks, each PARTIAL_SIG_LENGTH bytes long.
C13_EqualChunksForEveryLength ==
    last.op = "combine" /\ ~last.nullArg =>
        /\ Len(PassedToAggregate) = Len(CombinedBuffer) \div PARTIAL_SIG_LENGTH
        /\ \A k \in 1..Len(PassedToAggregate) :
              Len(PassedToAggregate[k]) = PARTIAL_SIG_LENGTH

\* C13: combine splits the buffer, in buffer order, into chunks of
\* PARTIAL_SIG_LENGTH bytes.  When the length is a multiple of
\* PARTIAL_SIG_LENGTH it hands length / PARTIAL_SIG_LENGTH chunks of that
\* width to aggregate; otherwise it hands one chunk more, the last one
\* holding the remaining bytes, and returns false without writing asig.
C13_ChunksWithRemainder ==
    last.op = "combine" /\ ~last.nullArg =>
        LET len == Len(CombinedBuffer)
            full == len \div PARTIAL_SIG_LENGTH
            rest == len % PARTIAL_SIG_LENGTH
            passed == PassedToAggregate
        IN /\ Concat(passed) = CombinedBuffer
           /\ \A k \in 1..full : Len(passed[k]) = PARTIAL_SIG_LENGTH
           /\ rest = 0 => Len(passed) = full
           /\ rest # 0 => /\ Len(passed) = full + 1
                          /\ Len(passed[full + 1]) = rest
                          /\ ~last.ret /\ last.wrote = {} /\ ~asig.init

\* combine with threshold 1 has refused two genuine partial signatures
\* whose last byte was cut off
C13_Witness ==
    /\ last.op = "combine" /\ ~last.ret
    /\ last.arg = <<1, 2 * PARTIAL_SIG_LENGTH - 1>>
    /\ Len(sigs) = 2 /\ Genuine(1) /\ Genuine(2)

(***************************************************************************)
(* SpecSingle: the single-key pipeline of tests::verify_ffi_should_blind   *)
(* and the serialization tests, for any seed and message.                  *)
(***************************************************************************)
NextSingle ==
    \/ \E seed \in Seeds :
          /\ keypair.st = "uninit"
          /\ Call_keygen({}, seed)
    \/ \E seed \in Seeds :
          /\ blinding_factor.st = "uninit"
          /\ Call_blind({}, seed)
    \/ /\ should_blind => blinded_message.init
       /\ ~sig.init
       /\ Call_sign({}, message_to_sign)
    \/ /\ should_blind /\ ~unblinded.init
       /\ Call_unblind({}, "single")
    \/ \E m \in Msgs : Call_verify({}, "single", m)
    \/ \E kind \in Kinds : Call_serialize({}, kind)
    \/ \E kind \in Kinds : Call_deserialize({}, kind)

SpecSingle == Init /\ [][NextSingle]_vars

\* C2: for a keypair made by keygen and any message, (a) sign returns true
\* and the signature verifies against the keypair's public key and the same
\* message; (b) blind, sign_blinded_message on the blinded message and
\* unblind with the token return true, and the unblinded signature verifies
\* against the public key and the original message.
C2_SingleKeyPipeline ==
    /\ last.op \in {"sign", "sign_blinded_message"} => last.ret /\ sig.init
    /\ last.op = "unblind" => last.ret /\ unblinded.init
    /\ last.op = "verify" /\ last.arg = 1 => last.ret

\* the blind variant has verified against the original message
C2_Witness ==
    /\ should_blind /\ unblinded.init
    /\ last.op = "verify" /\ last.arg = 1 /\ last.ret

\* C9: keygen on a seed of 32 bytes or more returns and writes a keypair
\* whose public key is the generator raised to its private key; on a shorter
\* seed it panics and writes no keypair.
C9_KeygenSeedLength ==
    last.op = "keygen" =>
        /\ last.arg.len >= SEED_LEN =>
              /\ ~last.panic /\ last.wrote = {"keypair"} /\ keypair.st = "live"
              /\ keypair.val.public = G2(keypair.val.private)
        /\ last.arg.len < SEED_LEN =>
              last.panic /\ last.wrote = {} /\ keypair.st = "uninit"

\* keygen has returned on a seed of exactly 32 bytes
C9_Witness ==
    last.op = "keygen" /\ last.arg.len = SEED_LEN /\ keypair.st = "live"

\* C4: serialize_* on a valid handle returns true and writes exactly the
\* fixed-width encoding of its kind, and deserialize_* on those bytes returns
\* true and yields a handle of the same value.
C4_SerializationRoundTrip ==
    /\ last.op = "serialize" =>
          /\ last.ret /\ ser_buf.init /\ ser_buf.kind = last.arg
          /\ Len(ser_buf.bytes) = KindLen(ser_buf.kind)
    /\ last.op = "deserialize" /\ last.arg[2] =>
          /\ last.ret /\ de.st = "live" /\ de.kind = ser_buf.kind
          /\ de.val = ser_buf.obj

\* a private key went through serialize_privkey and deserialize_privkey
C4_Witness ==
    /\ last.op = "deserialize" /\ last.arg = <<"PrivateKey", TRUE>>
    /\ keypair.st = "live" /\ de.val = keypair.val.private

(***************************************************************************)
(* SpecFFI: the boundary contract.  Both pipelines on one small key        *)
(* setup, every pointer argument possibly NULL, and message or signature   *)
(* buffers that are no valid encoding.                                     *)
(***************************************************************************)
InitFFI == Init /\ msg = <<1, 2, 3, 4, 6>>

PartialSignOp == IF should_blind THEN "partial_sign_blinded_message" ELSE "partial_sign"
PartialVerifyOp == IF should_blind THEN "partial_verify_blind_signature" ELSE "partial_verify"
SignOp == IF should_blind THEN "sign_blinded_message" ELSE "sign"
\* the message buffers handed to the signers: the right one, or bytes that
\* decode to no blinded message
MessageBuffers == {message_to_sign, Garbage(SIGNATURE_LEN)}

NextFFI ==
    \/ /\ keys.st = "uninit"
       /\ Call_threshold_keygen({}, 1, 1, Seed(97, SEED_LEN))
    \/ /\ keypair.st = "uninit"
       /\ Call_keygen({}, Seed(97, SEED_LEN))
    \/ \E nulls \in SUBSET ParamsOf("blind") :
          /\ blinding_factor.st = "uninit"
          /\ Call_blind(nulls, Seed(98, SEED_LEN))
    \/ \E nulls \in SUBSET ParamsOf(PartialSignOp), i \in {0}, m \in MessageBuffers :
          /\ keys.st = "live" /\ i < num_shares(keys.val)
          /\ should_blind => blinded_message.init
          /\ ~asig.init /\ ~HasSigned(i)
          /\ Call_partial_sign(nulls, Share(i), m)
    \/ \E nulls \in SUBSET ParamsOf(PartialVerifyOp), k \in {1} :
          Call_partial_verify(nulls, k)
    \/ \E nulls \in SUBSET ParamsOf("combine"), threshold \in 1..2, cut \in 0..1 :
          /\ ~asig.init
          /\ Call_combine(nulls, threshold, Len(Concat(sigs)) - cut)
    \/ \E nulls \in SUBSET ParamsOf("unblind"), which \in {"threshold", "single", "garbage"} :
          /\ should_blind /\ ~unblinded.init
          /\ Call_unblind(nulls, which)
    \/ \E nulls \in SUBSET ParamsOf("verify"), which \in {"threshold", "single"} :
          Call_verify(nulls, which, msg)
    \/ \E nulls \in SUBSET ParamsOf(SignOp), m \in MessageBuffers :
          /\ should_blind => blinded_message.init
          /\ ~sig.init
          /\ Call_sign(nulls, m)
    \/ \E nulls \in SUBSET ParamsOf("serialize"), kind \in Kinds : Call_serialize(nulls, kind)
    \/ \E nulls \in SUBSET ParamsOf("deserialize"), kind \in Kinds :
          Call_deserialize(nulls, kind)

SpecFFI == InitFFI /\ [][NextFFI]_vars

\* the locations an entry point can write through its output parameters
OutputLocations ==
    <<keys, keypair, blinding_factor, blinded_message, sigs, asig, sig, unblinded,
      ser_buf, de>>

NullCheckedOps ==
    {"blind", "unblind", "verify", "sign", "sign_blinded_message", "partial_sign",
     "partial_sign_blinded_message", "partial_verify", "partial_verify_blind_signature",
     "combine"}

\* C5: a call of blind, unblind, verify, sign, sign_blinded_message,
\* partial_sign, partial_sign_blinded_message, partial_verify,
\* partial_verify_blind_signature or combine with a NULL pointer argument
\* returns false, having dereferenced no pointer, written no output and
\* boxed no handle.
C5_NullArgumentsRefused ==
    [][last'.op \in NullCheckedOps /\ last'.nullArg =>
          /\ ~last'.ret /\ ~last'.panic /\ ~last'.ub
          /\ last'.deref = {} /\ last'.wrote = {}
          /\ UNCHANGED OutputLocations]_vars

\* blind was refused for a NULL argument
C5_Witness ==
    /\ last.op = "blind" /\ last.nullArg /\ ~last.ret
    /\ blinding_factor.st = "uninit" /\ ~blinded_message.init

BoolOps == NullCheckedOps \cup {"serialize", "deserialize"}

\* C6: an entry point that returns false has written none of its output
\* parameters and boxed no handle: unblind on a signature it cannot unblind,
\* the signing entry points when signing fails, combine when aggregation
\* fails, deserialize_* on bytes that do not decode.
C6_FailureWritesNothing ==
    [][last'.op \in BoolOps /\ ~last'.ret /\ ~last'.panic /\ ~last'.ub =>
          last'.wrote = {} /\ UNCHANGED OutputLocations]_vars

\* unblind has failed on bytes that are no signature
C6_Witness ==
    /\ last.op = "unblind" /\ ~last.nullArg /\ ~last.ret /\ last.arg.which = "garbage"
    /\ ~unblinded.init

SerializationOps == {"serialize", "deserialize"}

\* C14: serialize_pubkey, serialize_privkey, serialize_sig,
\* deserialize_pubkey, deserialize_privkey and deserialize_sig called with a
\* NULL input pointer or a NULL output pointer return false, having
\* dereferenced no pointer and written nothing.
C14_SerializationNullRefused ==
    last.op \in SerializationOps /\ last.nullArg =>
        /\ ~last.ret /\ ~last.panic /\ ~last.ub
        /\ last.deref = {} /\ last.wrote = {}

(***************************************************************************)
(* SpecDet: the constructors called again and again on a few seeds, their  *)
(* output locations overwritten, with signing and serialization calls in   *)
(* between.                                                                *)
(***************************************************************************)
DetSeeds == {Seed(97, SEED_LEN), Seed(98, SEED_LEN)}

NextDet ==
    \/ \E seed \in DetSeeds : Call_threshold_keygen({}, 2, 1, seed)
    \/ \E seed \in DetSeeds : Call_keygen({}, seed)
    \/ \E seed \in DetSeeds : Call_blind({}, seed)
    \/ /\ keypair.st = "live"
       /\ should_blind => blinded_message.init
       /\ ~sig.init
       /\ Call_sign({}, message_to_sign)
    \/ /\ keypair.st = "live" /\ ~ser_buf.init
       /\ Call_serialize({}, "PublicKey")

InitDet == Init /\ msg = <<1, 2, 3, 4, 6>>

SpecDet == InitDet /\ [][NextDet]_vars

InitMix == Init /\ ~should_blind /\ msg = <<1, 2, 3, 4, 6>>

NextMix ==
    \/ \E t \in 1..MaxT :
          /\ keys.st = "uninit"
          /\ Call_threshold_keygen({}, MaxN, t, Seed(97, SEED_LEN))
    \/ /\ keys.st = "live" /\ ~asig.init /\ Len(sigs) < MaxMixSigs
       /\ \E share \in SharesOf(keys.val), m \in Msgs :
             \* at most one partial signature is over another message or made
             \* with a share that is not of the polynomial
             /\ (share = Share(share.index) /\ m = msg)
                \/ \A k \in 1..Len(sigs) :
                      SchemePartialVerify(polynomial_ptr(keys.val).at, msg, sigs[k])
             /\ share = Share(share.index) \/ m = msg
             /\ Call_partial_sign({}, share, m)
    \/ /\ ~asig.init /\ keys.st = "live"
       /\ \E threshold \in {1, keys.val.t} :
             Call_combine({}, threshold, Len(Concat(sigs)))
    \/ Call_verify({}, "threshold", msg)

SpecMix == InitMix /\ [][NextMix]_vars

\* the k-th collected partial signature is one partial_verify accepts for
\* the caller's message
ValidPartial(k) == SchemePartialVerify(polynomial_ptr(keys.val).at, msg, sigs[k])

\* the positions of the `threshold` partial signatures of lowest index (of
\* equal indices the earlier in the buffer first)
FirstByIndex(threshold) ==
    {k \in 1..Len(sigs) :
        Cardinality({j \in 1..Len(sigs) :
                        \/ signers[j].index < signers[k].index
                        \/ signers[j].index = signers[k].index /\ j < k}) < threshold}

DistinctAt(positions) ==
    \A j, k \in positions : j # k => signers[j].index # signers[k].index

\* combine was given the whole concatenation and the threshold of the keys
CombinedAll ==
    /\ keys.st = "live" /\ asig.init
    /\ aggregated = [threshold |-> keys.val.t, len |-> Len(Concat(sigs))]

IndicesAt(positions) == Cardinality({signers[k].index : k \in positions})

ReferenceSignature ==
    LET t == keys.val.t
        partials == [i \in 1..t |->
                        partial_sign(Ptr(Share(i - 1)), Ptr(msg), Ptr("partial_sig")).buf]
    IN combine(t, Ptr(Concat(partials)), Ptr("asig")).buf

\* C16: combine with the threshold t of the keys over any k >= t valid
\* partial signatures of pairwise distinct share indices, in any order,
\* returns true and yields the signature it yields for every other such
\* selection.
C16_SelectionAndOrderIrrelevant ==
    last.op = "combine" /\ keys.st = "live"
    /\ last.arg = <<keys.val.t, Len(Concat(sigs))>>
    /\ Len(sigs) >= keys.val.t
    /\ DistinctAt(1..Len(sigs))
    /\ (\A k \in 1..Len(sigs) : ValidPartial(k))
        => last.ret /\ asig.init /\ asig.bytes = ReferenceSignature

\* 2-of-3: the partial signatures of shares 2, 0 and 1, in that order, have
\* been combined
C16_Witness ==
    /\ last.op = "combine" /\ last.ret /\ CombinedAll
    /\ keys.val.t = 2 /\ Len(sigs) = 3
    /\ signers[1].index = 2 /\ signers[2].index = 0 /\ signers[3].index = 1
    /\ \A k \in 1..3 : ValidPartial(k)

(***************************************************************************)
(* SpecSeed: the constructors called again and again on seed buffers that  *)
(* agree on their first 32 bytes and differ in length or in what follows.  *)
(***************************************************************************)
PrefixSeeds ==
    {Seed(97, SEED_LEN),
     Seed(97, SEED_LEN) \o Seed(98, MaxSeedLen - SEED_LEN),
     Seed(98, SEED_LEN) \o Seed(97, MaxSeedLen - SEED_LEN)}

NextSeed ==
    \/ \E seed \in PrefixSeeds : Call_threshold_keygen({}, 2, 2, seed)
    \/ \E seed \in PrefixSeeds : Call_keygen({}, seed)
    \/ \E seed \in PrefixSeeds : Call_blind({}, seed)

SpecSeed == InitDet /\ [][NextSeed]_vars

\* C17: blind, keygen and threshold_keygen called on a seed of at least 32
\* bytes that agrees with the seed of an earlier call on its first 32 bytes
\* (the other arguments being the same) yield what the earlier call
\* yielded: the same token and blinded message, the same keypair, the same
\* shares, polynomial and threshold public key.
C17_OnlyFirst32SeedBytes ==
    /\ last.op = "blind" /\ last.arg.again32 =>
          <<blinding_factor.val, blinded_message.bytes>> = first_made["blind"].out
    /\ last.op = "keygen" /\ last.arg.again32 =>
          keypair.val = first_made["keygen"].out
    /\ last.op = "threshold_keygen" /\ last.arg.again32 =>
          keys.val = first_made["threshold_keygen"].out

\* threshold_keygen has been called on a seed that continues the 32 bytes
\* of the first call's seed with other bytes
C17_Witness ==
    /\ last.op = "threshold_keygen" /\ last.arg.again32 /\ ~last.arg.again
    /\ last.arg.len = MaxSeedLen
    /\ Len(first_made["threshold_keygen"].in[3]) = SEED_LEN
    /\ keys.st = "live" /\ keys.val.t = 2

(***************************************************************************)
(* SpecOwn: the life of the handles.  Both blind pipelines on one small    *)
(* key setup, unblind called as often as the caller likes, serialization,  *)
(* and each handle released by the caller at any moment; a released handle *)
(* is not passed on.                                                       *)
(***************************************************************************)
InitOwn == Init /\ should_blind /\ msg = <<1, 2, 3, 4, 6>>

NextOwn ==
    \/ /\ keys.st = "uninit"
       /\ Call_threshold_keygen({}, 2, 1, Seed(97, SEED_LEN))
    \/ /\ keypair.st = "uninit"
       /\ Call_keygen({}, Seed(97, SEED_LEN))
    \/ /\ blinding_factor.st = "uninit"
       /\ Call_blind({}, Seed(98, SEED_LEN))
    \/ /\ keys.st = "live" /\ blinded_message.init /\ Len(sigs) < 1
       /\ Call_partial_sign({}, Share(0), message_to_sign)
    \/ Call_partial_verify({}, 1)
    \/ /\ ~asig.init /\ Len(sigs) = 1
       /\ Call_combine({}, 1, Len(Concat(sigs)))
    \/ /\ keypair.st = "live" /\ blinded_message.init /\ ~sig.init
       /\ Call_sign({}, message_to_sign)
    \/ \E which \in {"single", "garbage"} : Call_unblind({}, which)
    \/ Call_verify({}, "single", msg)
    \/ \E kind \in Kinds : ~ser_buf.init /\ Call_serialize({}, kind)
    \/ \E kind \in Kinds : de.st = "uninit" /\ Call_deserialize({}, kind)
    \/ blinding_factor.st = "live" /\ Call_destroy_token
    \/ keys.st = "live" /\ Call_destroy_keys
    \/ keypair.st = "live" /\ Call_destroy_keypair
    \/ de.st = "live" /\ Call_destroy_deserialized

SpecOwn == InitOwn /\ [][NextOwn]_vars

\* C15: a handle returned by blind, keygen, threshold_keygen or
\* deserialize_* stays live and unmodified through every call of the other
\* entry points and is released by its own destroy_* call and by no other
\* call.  unblind borrows the Token: called again with the same Token and
\* the same blinded signature it succeeds again with the same result.
C15_HandleOwnership ==
    [][/\ blinding_factor.st = "live" /\ blinding_factor' # blinding_factor
            => last'.op = "destroy_token" /\ blinding_factor'.st = "freed"
       /\ keys.st = "live" /\ keys' # keys
            => last'.op = "destroy_keys" /\ keys'.st = "freed"
       /\ keypair.st = "live" /\ keypair' # keypair
            => last'.op = "destroy_keypair" /\ keypair'.st = "freed"
       /\ de.st = "live" /\ de' # de
            => last'.op = DestroyOf(de.kind) /\ de'.st = "freed"
       /\ last'.op = "unblind" /\ last'.arg.which = "single" /\ last'.arg.again
            => last'.ret /\ unblinded' = unblinded /\ blinding_factor'.st = "live"]_vars

\* the Token has served two unblind calls on the signature and is still
\* live, after the keypair was released
C15_Witness ==
    /\ last.op = "unblind" /\ last.ret /\ last.arg.which = "single" /\ last.arg.again
    /\ unblinded.init /\ blinding_factor.st = "live"
    /\ keypair.st = "freed" /\ de.st = "live"

====
